---- MODULE Spec2Model ----
(***************************************************************************)
(* A model of the satellite-data API: request validation (serializers.py), *)
(* the request handlers (views.py), the OpenET fetch and the time-series   *)
(* processor (services/openet_service.py) and the narrative summarizer     *)
(* (services/ai_summarizer.py).                                            *)
(*                                                                         *)
(* Numbers.  ET values are held as integers in thousandths of a millimetre *)
(* and NDVI values as integers in thousandths; a reported number is held   *)
(* as an integer in the unit of its last reported decimal.  Every rounding *)
(* the code does (numpy's round-half-to-even) is computed exactly on these *)
(* integers.                                                               *)
(* Binary floating-point error is outside the model.                       *)
(*                                                                         *)
(* Python values.  A value that may be a number, None or a missing key is  *)
(* a record [tag, v]; a date string is a record [form, y, m, d]; a JSON    *)
(* value is a record [json, ...]; a call that raised is Raised(exception). *)
(***************************************************************************)
EXTENDS Integers, Sequences, FiniteSets, TLC

(***************************************************************************)
(* Bounds of the model.                                                    *)
(***************************************************************************)
\* longest data_points sequence handed directly to an analyzer
MaxPoints == 3
\* longest raw provider payload handed to the extractor
MaxItems == 3
\* longest provider payload handed to process_response
MaxFetched == 2
\* most positions of a polygon ring in a request
MaxRing == 4
\* longest data_points sequence of dated whole-millimetre ET values
MaxSeries == 4

VARIABLES
    pc,                 \* position of the operation under way
    request,            \* the HTTP request being served
    calls,              \* external calls made so far, in order
    raw_data,           \* provider payloads: the argument of the processor
    data_points,        \* argument of an analyzer called on its own
    processed_data,     \* result of the processor / of an analyzer
    response            \* the HTTP response

vars == <<pc, request, calls, raw_data, data_points, processed_data, response>>

(***************************************************************************)
(* Python values                                                           *)
(***************************************************************************)
Num(n) == [tag |-> "num", v |-> n]
\* the key is present and holds None
Null == [tag |-> "null", v |-> 0]
\* the key is missing: dict.get returns None, `key in dict` is False
Absent == [tag |-> "absent", v |-> 0]

\* a date string "y-m-d": form "iso" is zero-padded (2021-04-05), form
\* "short" is not (2021-4-5); "junk" is a non-empty string of another
\* shape, "empty" is "", and "absent" a missing 'time' key
DateStr(form, y, m, d) == [form |-> form, y |-> y, m |-> m, d |-> d]
JunkDate == DateStr("junk", 0, 0, 0)
EmptyDate == DateStr("empty", 0, 0, 0)
AbsentDate == DateStr("absent", 0, 0, 0)

\* Python truthiness of item.get('time')
Truthy(date) == date.form \notin {"empty", "absent"}

IsLeap(y) == (y % 4 = 0 /\ y % 100 # 0) \/ y % 400 = 0

DaysInMonth(y, m) ==
    IF m = 2 THEN (IF IsLeap(y) THEN 29 ELSE 28)
    ELSE IF m \in {4, 6, 9, 11} THEN 30 ELSE 31

\* datetime.strptime(s, '%Y-%m-%d'): ValueError unless s has the shape
\* y-m-d (padded or not) and names a day of the calendar
strptime(s) ==
    IF /\ s.form \in {"iso", "short"}
       /\ s.m \in 1..12
       /\ s.d \in 1..DaysInMonth(s.y, s.m)
    THEN [raised |-> "", year |-> s.y, month |-> s.m, day |-> s.d]
    ELSE [raised |-> "ValueError", year |-> 0, month |-> 0, day |-> 0]

\* datetime.strftime('%Y-%m-%d'): always zero-padded
strftime(dt) == DateStr("iso", dt.year, dt.month, dt.day)

(***************************************************************************)
(* Arithmetic                                                              *)
(***************************************************************************)
Abs(n) == IF n < 0 THEN -n ELSE n

\* round(n / d) to an integer, halves to the even neighbour (numpy's round)
RoundHalfEven(n, d) ==
    LET q == n \div d
        r == n % d
    IN  IF 2 * r < d THEN q
        ELSE IF 2 * r > d THEN q + 1
        ELSE IF q % 2 = 0 THEN q ELSE q + 1

RECURSIVE SumSeq(_)
SumSeq(s) == IF s = <<>> THEN 0 ELSE Head(s) + SumSeq(Tail(s))

MaxSeq(s) == CHOOSE x \in {s[i] : i \in 1..Len(s)} :
                 \A j \in 1..Len(s) : s[j] <= x

MinSeq(s) == CHOOSE x \in {s[i] : i \in 1..Len(s)} :
                 \A j \in 1..Len(s) : s[j] >= x

\* np.argmax: the first index holding the maximum (1-based here)
ArgMax(s) == CHOOSE i \in 1..Len(s) :
                 /\ \A j \in 1..Len(s) : s[j] <= s[i]
                 /\ \A j \in 1..(i - 1) : s[j] < s[i]

\* the elements of a finite set of integers in ascending order (sorted())
RECURSIVE SortedSeq(_)
SortedSeq(S) ==
    IF S = {} THEN <<>>
    ELSE LET least == CHOOSE x \in S : \A y \in S : x <= y
         IN  <<least>> \o SortedSeq(S \ {least})

\* the largest r in lo..hi with r * r <= n (lo * lo <= n)
RECURSIVE ISqrtIn(_, _, _)
ISqrtIn(n, lo, hi) ==
    IF lo = hi THEN lo
    ELSE LET mid == (lo + hi + 1) \div 2
         IN  IF mid * mid <= n THEN ISqrtIn(n, mid, hi)
             ELSE ISqrtIn(n, lo, mid - 1)

\* the greatest common divisor of two naturals (Gcd(a, 0) = a)
RECURSIVE Gcd(_, _)
Gcd(a, b) == IF b = 0 THEN a ELSE Gcd(b, a % b)

\* the greatest common divisor of g and the elements of a sequence of naturals
RECURSIVE GcdSeq(_, _)
GcdSeq(g, s) == IF s = <<>> THEN g ELSE GcdSeq(Gcd(g, Head(s)), Tail(s))

\* round(np.std(values) / unit) to an integer: the population standard
\* deviation is sqrt(a) / n = sqrt(4a) / 2n with
\* a = n * sum(v^2) - sum(v)^2; it is rounded to the nearest multiple of
\* unit, and to the even one when it lies halfway.  The standard deviation
\* does not change when the least value is subtracted from every value,
\* and std(values) / unit does not change when values and unit are divided
\* by a common divisor: both are done first, which keeps the squares small.
StdDev(values, unit) ==
    LET n    == Len(values)
        low  == MinSeq(values)
        d    == [i \in 1..n |-> values[i] - low]
        g    == GcdSeq(unit, d)
        w    == [i \in 1..n |-> d[i] \div g]
        u    == unit \div g
        a    == n * SumSeq([i \in 1..n |-> w[i] * w[i]]) - SumSeq(w) * SumSeq(w)
        r    == ISqrtIn(4 * a, 0, 2 * n * MaxSeq(w))
        up   == (r + n * u) \div (2 * n * u)
        half == r * r = 4 * a /\ (r + n * u) % (2 * n * u) = 0
    IN  IF half /\ up % 2 = 1 THEN up - 1 ELSE up

(***************************************************************************)
(* OpenETDataProcessor._analyze_et_data                                    *)
(***************************************************************************)
\* a data point {'date': ..., 'ET': ..., 'NDVI': ...}; a key the dict does
\* not hold is Absent
Point(date, et, ndvi) == [date |-> date, ET |-> et, NDVI |-> ndvi]

\* 'ET' in point and point['ET'] is not None
HasET(point) == point.ET.tag = "num"

\* et_values: the value of every point that has one, whether or not its
\* date parses (the append precedes the try)
EtValues(points) ==
    LET kept == SelectSeq(points, HasET)
    IN  [i \in 1..Len(kept) |-> kept[i].ET.v]

DateParses(point) == strptime(point.date).raised = ""

\* dates: the parsed date of every valued point whose date parses; a
\* ValueError is caught and the point contributes no date
EtDates(points) ==
    LET kept == SelectSeq(SelectSeq(points, HasET), DateParses)
    IN  [i \in 1..Len(kept) |-> strptime(kept[i].date)]

\* numerator and denominator of the least-squares slope of y against the
\* index 0, 1, ..., n-1 (np.polyfit(np.arange(n), y, 1)[0])
SlopeNum(y) ==
    LET n   == Len(y)
        sx  == SumSeq([i \in 1..n |-> i - 1])
        sxy == SumSeq([i \in 1..n |-> (i - 1) * y[i]])
    IN  n * sxy - sx * SumSeq(y)

SlopeDen(n) ==
    LET sx  == SumSeq([i \in 1..n |-> i - 1])
        sxx == SumSeq([i \in 1..n |-> (i - 1) * (i - 1)])
    IN  n * sxx - sx * sx

\* TrendOfSlope with the stable band closed at 0.1: abs(slope) <= 0.1
TrendOfSlopeClosedBand(num, den) ==
    IF Abs(num) * 10 <= den * 1000 THEN "stable"
    ELSE IF num > 0 THEN "increasing"
    ELSE "decreasing"

\* the trend of a slope num/den given in thousandths of a millimetre per step:
\* abs(slope) < 0.1 is stable, else slope > 0 is increasing, else decreasing
TrendOfSlope(num, den) ==
    IF Abs(num) * 10 < den * 1000 THEN "stable"
    ELSE IF num > 0 THEN "increasing"
    ELSE "decreasing"

\* Trend with the label taken from the rounded slope: round(slope, 3) is
\* classified instead of slope
TrendOfRoundedSlope(et_values) ==
    IF Len(et_values) > 1
    THEN LET num == SlopeNum(et_values)
             den == SlopeDen(Len(et_values))
             trend_slope == RoundHalfEven(num, den)
         IN  [trend |-> TrendOfSlope(trend_slope, 1),
              trend_slope |-> trend_slope]
    ELSE [trend |-> "stable", trend_slope |-> 0]

\* (trend, trend_slope) of et_values; trend_slope is round(slope, 3), held
\* in thousandths of a millimetre
Trend(et_values) ==
    IF Len(et_values) > 1
    THEN LET num == SlopeNum(et_values)
             den == SlopeDen(Len(et_values))
         IN  [trend |-> TrendOfSlope(num, den),
              trend_slope |-> RoundHalfEven(num, den)]
    ELSE [trend |-> "stable", trend_slope |-> 0]

\* zip(dates, et_values): the i-th date with the i-th value, as far as the
\* shorter of the two reaches
Zip(dates, et_values) ==
    LET n == IF Len(dates) < Len(et_values) THEN Len(dates) ELSE Len(et_values)
    IN  [i \in 1..n |-> [date |-> dates[i], et_val |-> et_values[i]]]

EtValOf(pairs) == [i \in 1..Len(pairs) |-> pairs[i].et_val]

\* mm_to_inches = 0.0393701, in ten-millionths
mm_to_inches == 393701

\* round(mm * mm_to_inches, 2) of a whole number of millimetres, in
\* hundredths of an inch
Inches(mm) == RoundHalfEven(mm * mm_to_inches, 100000)

\* growing_season_et_mm: the values zipped with a date of April to October
GrowingSeasonEtMm(pairs) ==
    LET InGrowingSeason(p) == 4 <= p.date.month /\ p.date.month <= 10
        growing_season_et  == EtValOf(SelectSeq(pairs, InGrowingSeason))
    IN  IF growing_season_et # <<>>
        THEN RoundHalfEven(SumSeq(growing_season_et), 1000)
        ELSE 0

\* yearly_totals_mm: the items of the dict in order, a year and the rounded
\* total of the values zipped with a date of that year, sorted by year
YearlyTotalsMm(pairs) ==
    LET years == SortedSeq({pairs[i].date.year : i \in 1..Len(pairs)})
    IN  [k \in 1..Len(years) |->
            LET OfYear(p) == p.date.year = years[k]
            IN  [year |-> years[k],
                 total |-> RoundHalfEven(SumSeq(EtValOf(SelectSeq(pairs, OfYear))), 1000)]]

\* the branch of the if/elif chain a month takes
SeasonOf(month) ==
    IF month \in {12, 1, 2} THEN "winter"
    ELSE IF month \in {3, 4, 5} THEN "spring"
    ELSE IF month \in {6, 7, 8} THEN "summer"
    ELSE "fall"

\* seasonal_totals_mm: the four keys, each the rounded total of the values
\* zipped with a date of that season
SeasonalTotalsMm(pairs) ==
    [season \in {"winter", "spring", "summer", "fall"} |->
        LET OfSeason(p) == SeasonOf(p.date.month) = season
        IN  RoundHalfEven(SumSeq(EtValOf(SelectSeq(pairs, OfSeason))), 1000)]

\* et_variability of the values and the rounded mean (in tenths of a
\* millimetre): std_dev_mm in tenths, coefficient_of_variation in hundredths
EtVariability(et_values, mean_monthly_et_mm) ==
    LET std_dev == StdDev(et_values, 100)
        cv      == IF mean_monthly_et_mm > 0
                   THEN RoundHalfEven(100 * std_dev, mean_monthly_et_mm)
                   ELSE 0
    IN  [std_dev_mm |-> std_dev,
         coefficient_of_variation |-> cv,
         consistency |-> IF cv < 30 THEN "high"
                         ELSE IF cv < 60 THEN "moderate"
                         ELSE "low"]

\* WaterUse with each threshold counted into the class below it (`<=`)
WaterUseClosedBelow(mean_monthly_et_mm) ==
    IF mean_monthly_et_mm <= 300
    THEN [class |-> "low_water_use", description |-> "Low water consumption"]
    ELSE IF mean_monthly_et_mm <= 500
    THEN [class |-> "moderate_water_use", description |-> "Moderate water consumption"]
    ELSE IF mean_monthly_et_mm <= 700
    THEN [class |-> "high_water_use", description |-> "High water consumption"]
    ELSE [class |-> "very_high_water_use",
          description |-> "Significantly high water consumption"]

\* water_class and water_desc of the rounded mean (tenths of a millimetre)
WaterUse(mean_monthly_et_mm) ==
    IF mean_monthly_et_mm < 300
    THEN [class |-> "low_water_use", description |-> "Low water consumption"]
    ELSE IF mean_monthly_et_mm < 500
    THEN [class |-> "moderate_water_use", description |-> "Moderate water consumption"]
    ELSE IF mean_monthly_et_mm < 700
    THEN [class |-> "high_water_use", description |-> "High water consumption"]
    ELSE [class |-> "very_high_water_use",
          description |-> "Significantly high water consumption"]

EmptyDict == [kind |-> "empty"]
Raised(exception) == [kind |-> "raised", exception |-> exception]

\* the analysis: EmptyDict for {}, Raised(e) when the call raises e
_analyze_et_data(points) ==
    IF points = <<>> THEN EmptyDict
    ELSE
    LET et_values == EtValues(points)
        dates     == EtDates(points)
    IN  IF et_values = <<>> THEN EmptyDict
        ELSE
        LET total_et_mm        == RoundHalfEven(SumSeq(et_values), 1000)
            mean_monthly_et_mm == RoundHalfEven(SumSeq(et_values), 100 * Len(et_values))
            max_idx            == ArgMax(et_values)
            pairs              == Zip(dates, et_values)
            growing_season_et_mm == GrowingSeasonEtMm(pairs)
            t                  == Trend(et_values)
            water              == WaterUse(mean_monthly_et_mm)
        IN  \* dates[max_idx]
            IF max_idx > Len(dates) THEN Raised("IndexError")
            ELSE
            [kind |-> "report",
             total_et_mm |-> total_et_mm,
             mean_monthly_et_mm |-> mean_monthly_et_mm,
             max_monthly_et_mm |-> RoundHalfEven(MaxSeq(et_values), 1000),
             min_monthly_et_mm |-> RoundHalfEven(MinSeq(et_values), 1000),
             peak_et_month |-> strftime(dates[max_idx]),
             total_et_inches |-> Inches(total_et_mm),
             growing_season_et_mm |-> growing_season_et_mm,
             growing_season_et_inches |-> Inches(growing_season_et_mm),
             observations |-> Len(et_values),
             date_range |-> [start |-> strftime(dates[1]),
                             end |-> strftime(dates[Len(dates)])],
             yearly_totals_mm |-> YearlyTotalsMm(pairs),
             seasonal_totals_mm |-> SeasonalTotalsMm(pairs),
             monthly_trend |-> t.trend,
             trend_slope_mm_per_month |-> t.trend_slope,
             et_variability |-> EtVariability(et_values, mean_monthly_et_mm),
             water_use_classification |-> water.class,
             water_use_description |-> water.description]

(***************************************************************************)
(* OpenETDataProcessor._generate_vegetation_summary                        *)
(***************************************************************************)
\* 'NDVI' in point and point['NDVI'] is not None
HasNDVI(point) == point.NDVI.tag = "num"

NdviValues(points) ==
    LET kept == SelectSeq(points, HasNDVI)
    IN  [i \in 1..Len(kept) |-> kept[i].NDVI.v]

\* Vigor with each threshold counted into the class below it (`<=`)
VigorClosedBelow(mean_ndvi) ==
    IF mean_ndvi <= 200 THEN "Sparse or no vegetation"
    ELSE IF mean_ndvi <= 400 THEN "Low vegetation"
    ELSE IF mean_ndvi <= 600 THEN "Moderate vegetation"
    ELSE IF mean_ndvi <= 800 THEN "Healthy vegetation"
    ELSE "Very healthy/dense vegetation"

\* the vigor class of mean_ndvi (in thousandths)
Vigor(mean_ndvi) ==
    IF mean_ndvi < 200 THEN "Sparse or no vegetation"
    ELSE IF mean_ndvi < 400 THEN "Low vegetation"
    ELSE IF mean_ndvi < 600 THEN "Moderate vegetation"
    ELSE IF mean_ndvi < 800 THEN "Healthy vegetation"
    ELSE "Very healthy/dense vegetation"

_generate_vegetation_summary(points) ==
    IF points = <<>> THEN EmptyDict
    ELSE
    LET ndvi_values == NdviValues(points)
    IN  IF ndvi_values = <<>> THEN EmptyDict
        ELSE
        LET mean_ndvi == RoundHalfEven(SumSeq(ndvi_values), Len(ndvi_values))
        IN  [kind |-> "report",
             total_observations |-> Len(ndvi_values),
             mean_ndvi |-> mean_ndvi,
             max_ndvi |-> MaxSeq(ndvi_values),
             min_ndvi |-> MinSeq(ndvi_values),
             std_dev |-> StdDev(ndvi_values, 1),
             vigor_classification |-> Vigor(mean_ndvi)]

(***************************************************************************)
(* OpenETDataProcessor._extract_variable_data                              *)
(***************************************************************************)
\* one record of a provider payload: time is item.get('time') and value is
\* item.get(variable.lower())
Item(time, value) == [time |-> time, value |-> value]

\* a provider payload: a list of records, or something that is no list
ListPayload(items) == [is_list |-> TRUE, items |-> items]
ErrorObject == [is_list |-> FALSE, items |-> <<>>]

\* Extracts with the value tested for truth (`if date and value`): a value
\* of 0 is dropped
ExtractsTruthyValue(item) ==
    Truthy(item.time) /\ item.value.tag = "num" /\ item.value.v # 0

\* `if date and value is not None`
Extracts(item) == Truthy(item.time) /\ item.value.tag = "num"

\* the data point appended for an item: {'date': date, variable.upper(): value}
PointOf(item, variable) ==
    IF variable = "et" THEN Point(item.time, item.value, Absent)
    ELSE Point(item.time, Absent, item.value)

NoDateRange == [kind |-> "N/A"]
DateRange(first, last) == [kind |-> "range", start |-> first, end |-> last]

\* round(np.mean(valid_values), 3) in thousandths, the unit of the values
\* of either variable
MeanValue(valid_values, variable) ==
    IF valid_values = <<>> THEN 0
    ELSE RoundHalfEven(SumSeq(valid_values), Len(valid_values))

\* _extract_variable_data with date_range taken from the first and the last
\* record of the payload, extracted or not
_extract_variable_data_payload_range(raw, variable) ==
    IF raw.is_list
    THEN LET kept         == SelectSeq(raw.items, Extracts)
             points       == [i \in 1..Len(kept) |-> PointOf(kept[i], variable)]
             valid_values == [i \in 1..Len(kept) |-> kept[i].value.v]
         IN  [values_found |-> Len(valid_values),
              date_range |-> IF raw.items = <<>> THEN NoDateRange
                             ELSE DateRange(raw.items[1].time,
                                            raw.items[Len(raw.items)].time),
              mean |-> MeanValue(valid_values, variable),
              data_points |-> points]
    ELSE [values_found |-> 0,
          date_range |-> NoDateRange,
          mean |-> 0,
          data_points |-> <<>>]

_extract_variable_data(raw, variable) ==
    IF raw.is_list
    THEN LET kept         == SelectSeq(raw.items, Extracts)
             points       == [i \in 1..Len(kept) |-> PointOf(kept[i], variable)]
             valid_values == [i \in 1..Len(kept) |-> kept[i].value.v]
         IN  [values_found |-> Len(valid_values),
              date_range |-> IF points = <<>> THEN NoDateRange
                             ELSE DateRange(points[1].date,
                                            points[Len(points)].date),
              mean |-> MeanValue(valid_values, variable),
              data_points |-> points]
    ELSE [values_found |-> 0,
          date_range |-> NoDateRange,
          mean |-> 0,
          data_points |-> <<>>]

(***************************************************************************)
(* OpenETDataProcessor.process_response                                    *)
(***************************************************************************)
process_response(raw) ==
    LET ndvi_data          == _extract_variable_data(raw.ndvi, "ndvi")
        et_data            == _extract_variable_data(raw.et, "et")
        et_analysis        == _analyze_et_data(et_data.data_points)
        vegetation_summary == _generate_vegetation_summary(ndvi_data.data_points)
    IN  IF et_analysis.kind = "raised" THEN et_analysis
        ELSE [kind |-> "report",
              NDVI |-> ndvi_data,
              ET |-> et_data,
              et_analysis |-> et_analysis,
              vegetation_summary |-> vegetation_summary]

(***************************************************************************)
(* Inputs                                                                  *)
(***************************************************************************)
\* all sequences over S of length at most n
SeqsUpTo(S, n) == UNION {[1..k -> S] : k \in 0..n}

Dec2020 == DateStr("iso", 2020, 12, 1)
\* "2021-4-5": parses, and strftime gives "2021-04-05"
Apr2021 == DateStr("short", 2021, 4, 5)
Jan2021 == DateStr("iso", 2021, 1, 1)
Mar2021 == DateStr("iso", 2021, 3, 1)
Jun2021 == DateStr("iso", 2021, 6, 1)
Jul2021 == DateStr("iso", 2021, 7, 1)
Oct2021 == DateStr("iso", 2021, 10, 1)
Nov2021 == DateStr("iso", 2021, 11, 1)
\* "2021-02-30": the right shape, but no day of the calendar
Feb30 == DateStr("iso", 2021, 2, 30)

\* ET values, in thousandths of a millimetre: 0, 0.1, 0.2 and 5 mm
EtInputs == {0, 100, 200, 5000}
\* NDVI values, in thousandths
NdviInputs == {150, 450}

NoValue == [kind |-> "none"]
NoRequest == [kind |-> "none"]
NoPayloads == [et |-> ErrorObject, ndvi |-> ErrorObject]

(***************************************************************************)
(* SpecAnalyze: each analyzer called on its own on a sequence of points.   *)
(***************************************************************************)
AnalyzerPoints ==
    {Point(d, e, Absent) :
        d \in {Dec2020, Apr2021, JunkDate, Feb30},
        e \in {Num(v) : v \in EtInputs} \cup {Null}}
    \cup {Point(Dec2020, Absent, n) : n \in {Num(v) : v \in NdviInputs} \cup {Null}}

InitAnalyze ==
    /\ pc = "ready"
    /\ data_points \in SeqsUpTo(AnalyzerPoints, MaxPoints)
    /\ request = NoRequest
    /\ calls = <<>>
    /\ raw_data = NoPayloads
    /\ processed_data = NoValue
    /\ response = NoValue

AnalyzeEtData ==
    /\ pc = "ready"
    /\ processed_data' = _analyze_et_data(data_points)
    /\ pc' = "analyzed"
    /\ UNCHANGED <<request, calls, raw_data, data_points, response>>

GenerateVegetationSummary ==
    /\ pc = "ready"
    /\ processed_data' = _generate_vegetation_summary(data_points)
    /\ pc' = "summarized"
    /\ UNCHANGED <<request, calls, raw_data, data_points, response>>

NextAnalyze == AnalyzeEtData \/ GenerateVegetationSummary

SpecAnalyze == InitAnalyze /\ [][NextAnalyze]_vars

(***************************************************************************)
(* Claims about the ET analyzer and the vegetation summarizer              *)
(* (SpecAnalyze).                                                          *)
(***************************************************************************)
\* the points an analysis is meant to rest on: those with an ET value and a
\* date that parses
Usable(point) == HasET(point) /\ DateParses(point)
UsablePoints(points) == SelectSeq(points, Usable)

\* some point has an ET value and a date that does not parse
HasBadDate(points) ==
    \E i \in 1..Len(points) : HasET(points[i]) /\ ~DateParses(points[i])

\* C2: when some records have a date that does not parse, the ET analyzer
\* does not raise, and its result is the analysis of the remaining records:
\* a skipped record contributes neither its value nor its date.
C2_BadDatesAreSkipped ==
    (pc = "analyzed" /\ HasBadDate(data_points)) =>
        /\ processed_data.kind # "raised"
        /\ processed_data = _analyze_et_data(UsablePoints(data_points))

\* C3: peak_et_month of a non-empty analysis is the date of the first
\* observation, in input order, that holds the maximum ET value among the
\* observations that were not skipped.
C3_PeakIsFirstMaximum ==
    (pc = "analyzed" /\ processed_data.kind = "report") =>
        LET used == UsablePoints(data_points)
        IN  /\ used # <<>>
            /\ \E i \in 1..Len(used) :
                  /\ processed_data.peak_et_month = strftime(strptime(used[i].date))
                  /\ \A j \in 1..Len(used) : used[j].ET.v <= used[i].ET.v
                  /\ \A j \in 1..(i - 1) : used[j].ET.v < used[i].ET.v

\* C4: observations counts the records with a non-null ET value and a date
\* that parsed; a record whose date failed to parse is not counted.
C4_ObservationsCountsParsed ==
    (pc = "analyzed" /\ processed_data.kind = "report") =>
        processed_data.observations = Len(UsablePoints(data_points))

\* C5: an analyzer returns the empty structure, and does not raise, when no
\* usable observation remains: for the ET analyzer no point with an ET
\* value and a date that parses, for the vegetation summarizer no point
\* with an NDVI value.
C5_EmptyWhenNothingUsable ==
    /\ (pc = "analyzed" /\ UsablePoints(data_points) = <<>>) =>
           processed_data = EmptyDict
    /\ (pc = "summarized" /\ \A i \in 1..Len(data_points) : ~HasNDVI(data_points[i])) =>
           processed_data = EmptyDict

\* The least-squares slope of y against the index 0, 1, ..., written as
\* covariance over variance of the centred data, both scaled by n * n:
\*   slope = CentredCov(y) / CentredVar(Len(y))
CentredCov(y) ==
    LET n  == Len(y)
        sx == SumSeq([i \in 1..n |-> i - 1])
        sy == SumSeq(y)
    IN  SumSeq([i \in 1..n |-> (n * (i - 1) - sx) * (n * y[i] - sy)])

CentredVar(n) ==
    LET sx == SumSeq([i \in 1..n |-> i - 1])
    IN  SumSeq([i \in 1..n |-> (n * (i - 1) - sx) * (n * (i - 1) - sx)])

\* the slope of the ET values of the points, in millimetres per step, is
\* the fraction a / b (ET values are held in thousandths)
SlopeIs(points, a, b) ==
    LET y == EtValues(points)
    IN  /\ Len(y) > 1
        /\ b * CentredCov(y) = 1000 * a * CentredVar(Len(y))

\* C10: monthly_trend follows the least-squares slope of the ET values
\* against their index 0, 1, 2, ... and nothing else: stable if
\* |slope| < 0.1, otherwise increasing if slope > 0, otherwise decreasing;
\* with fewer than 2 values it is stable with slope 0.0.  Slopes -5,
\* -0.05, 0, 0.05 and 5 give decreasing, stable, stable, stable,
\* increasing.  (The values are those of every record that has one: see C2
\* and C4 for records whose date does not parse.)
C10_TrendFollowsSlope ==
    (pc = "analyzed" /\ processed_data.kind = "report") =>
        LET y   == EtValues(data_points)
            cov == CentredCov(y)
            var == CentredVar(Len(y))
        IN  /\ Len(y) < 2 =>
                /\ processed_data.monthly_trend = "stable"
                /\ processed_data.trend_slope_mm_per_month = 0
            /\ Len(y) >= 2 =>
                processed_data.monthly_trend =
                    IF 10 * Abs(cov) < 1000 * var THEN "stable"
                    ELSE IF cov > 0 THEN "increasing"
                    ELSE "decreasing"
            /\ SlopeIs(data_points, -5, 1) => processed_data.monthly_trend = "decreasing"
            /\ SlopeIs(data_points, -5, 100) => processed_data.monthly_trend = "stable"
            /\ SlopeIs(data_points, 0, 1) => processed_data.monthly_trend = "stable"
            /\ SlopeIs(data_points, 5, 100) => processed_data.monthly_trend = "stable"
            /\ SlopeIs(data_points, 5, 1) => processed_data.monthly_trend = "increasing"

\* an analysis of three values whose slope is 0.05 was classified stable
C10_Witness ==
    /\ pc = "analyzed"
    /\ processed_data.kind = "report"
    /\ Len(EtValues(data_points)) = 3
    /\ SlopeIs(data_points, 5, 100)
    /\ processed_data.monthly_trend = "stable"

(***************************************************************************)
(* SpecClassify: each analyzer called on its own on values at and next to  *)
(* the thresholds of its classification.                                   *)
(***************************************************************************)
\* ET values in thousandths of a millimetre: 29.9, 30, 49.9, 50, 69.9, 70
WaterUseInputs == {29900, 30000, 49900, 50000, 69900, 70000}
\* NDVI values in thousandths: 0.19, 0.2, 0.39, 0.4, 0.59, 0.6, 0.79, 0.8
VigorInputs == {190, 200, 390, 400, 590, 600, 790, 800}

ClassifyEtPoints ==
    {Point(d, Num(v), Absent) : d \in {Dec2020, JunkDate}, v \in WaterUseInputs}

ClassifyNdviPoints == {Point(Dec2020, Absent, Num(v)) : v \in VigorInputs}

InitClassify ==
    /\ pc = "ready"
    /\ data_points \in SeqsUpTo(ClassifyEtPoints, MaxPoints)
                       \cup SeqsUpTo(ClassifyNdviPoints, MaxPoints)
    /\ request = NoRequest
    /\ calls = <<>>
    /\ raw_data = NoPayloads
    /\ processed_data = NoValue
    /\ response = NoValue

SpecClassify == InitClassify /\ [][NextAnalyze]_vars

\* C11: water_use_classification is a function of the reported
\* mean_monthly_et_mm only: below 30 low_water_use, from 30 to below 50
\* moderate_water_use, from 50 to below 70 high_water_use, 70 and above
\* very_high_water_use; the means 29.9, 30, 49.9, 50, 69.9 and 70 classify
\* as low, moderate, moderate, high, high and very_high; every non-empty
\* analysis carries exactly one class, with the description of that class.
C11_WaterUseFollowsReportedMean ==
    (pc = "analyzed" /\ processed_data.kind = "report") =>
        LET mean  == processed_data.mean_monthly_et_mm
            class == processed_data.water_use_classification
            desc  == processed_data.water_use_description
        IN  /\ class = "low_water_use" <=> mean < 300
            /\ class = "moderate_water_use" <=> (300 <= mean /\ mean < 500)
            /\ class = "high_water_use" <=> (500 <= mean /\ mean < 700)
            /\ class = "very_high_water_use" <=> 700 <= mean
            /\ mean = 299 => class = "low_water_use"
            /\ mean = 300 => class = "moderate_water_use"
            /\ mean = 499 => class = "moderate_water_use"
            /\ mean = 500 => class = "high_water_use"
            /\ mean = 699 => class = "high_water_use"
            /\ mean = 700 => class = "very_high_water_use"
            /\ <<class, desc>> \in
                  {<<"low_water_use", "Low water consumption">>,
                   <<"moderate_water_use", "Moderate water consumption">>,
                   <<"high_water_use", "High water consumption">>,
                   <<"very_high_water_use", "Significantly high water consumption">>}

\* the values 29.9 and 30 have the reported mean 30.0 (29.95 rounded) and
\* were classified moderate_water_use
C11_Witness ==
    /\ pc = "analyzed"
    /\ processed_data.kind = "report"
    /\ EtValues(data_points) = <<29900, 30000>>
    /\ processed_data.mean_monthly_et_mm = 300
    /\ processed_data.water_use_classification = "moderate_water_use"

\* C12: vigor_classification is a function of the reported mean_ndvi only:
\* below 0.2 Sparse, below 0.4 Low, below 0.6 Moderate, below 0.8 Healthy,
\* else Very healthy/dense; the means 0.19, 0.2, 0.39, 0.4, 0.59, 0.6, 0.79
\* and 0.8 classify as Sparse, Low, Low, Moderate, Moderate, Healthy,
\* Healthy and Very healthy.
C12_VigorFollowsReportedMean ==
    (pc = "summarized" /\ processed_data.kind = "report") =>
        LET mean  == processed_data.mean_ndvi
            vigor == processed_data.vigor_classification
        IN  /\ vigor = "Sparse or no vegetation" <=> mean < 200
            /\ vigor = "Low vegetation" <=> (200 <= mean /\ mean < 400)
            /\ vigor = "Moderate vegetation" <=> (400 <= mean /\ mean < 600)
            /\ vigor = "Healthy vegetation" <=> (600 <= mean /\ mean < 800)
            /\ vigor = "Very healthy/dense vegetation" <=> 800 <= mean
            /\ mean = 190 => vigor = "Sparse or no vegetation"
            /\ mean = 200 => vigor = "Low vegetation"
            /\ mean = 390 => vigor = "Low vegetation"
            /\ mean = 400 => vigor = "Moderate vegetation"
            /\ mean = 590 => vigor = "Moderate vegetation"
            /\ mean = 600 => vigor = "Healthy vegetation"
            /\ mean = 790 => vigor = "Healthy vegetation"
            /\ mean = 800 => vigor = "Very healthy/dense vegetation"

\* the values 0.2 and 0.6 have the reported mean 0.4 and were classified
\* Moderate vegetation
C12_Witness ==
    /\ pc = "summarized"
    /\ processed_data.kind = "report"
    /\ NdviValues(data_points) = <<200, 600>>
    /\ processed_data.mean_ndvi = 400
    /\ processed_data.vigor_classification = "Moderate vegetation"

(***************************************************************************)
(* SpecSeasons: the ET analyzer on whole-millimetre values dated in        *)
(* different months and years, in any order.                               *)
(***************************************************************************)
SeasonDates ==
    {Dec2020, Jan2021, Mar2021, Apr2021, Jul2021, Oct2021, Nov2021, JunkDate}

\* 20, 40 and 80 mm, in thousandths
SeasonEtInputs == {20000, 40000, 80000}

SeasonPoints ==
    {Point(d, Num(v), Absent) : d \in SeasonDates, v \in SeasonEtInputs}

InitSeasons ==
    /\ pc = "ready"
    /\ data_points \in SeqsUpTo(SeasonPoints, MaxSeries)
    /\ request = NoRequest
    /\ calls = <<>>
    /\ raw_data = NoPayloads
    /\ processed_data = NoValue
    /\ response = NoValue

SpecSeasons == InitSeasons /\ [][NextAnalyze]_vars

\* the analyzed observations: the points with an ET value and a date that
\* parses, each with its own month, year and value
MonthOf(point) == strptime(point.date).month
YearOf(point) == strptime(point.date).year

\* the sum (in thousandths) of the ET values of the analyzed observations of
\* points whose own month is one of months
SumOfMonths(points, months) ==
    LET InMonths(p) == MonthOf(p) \in months
    IN  SumSeq(EtValues(SelectSeq(UsablePoints(points), InMonths)))

\* the same for the observations whose own year is year
SumOfYear(points, year) ==
    LET InYear(p) == YearOf(p) = year
    IN  SumSeq(EtValues(SelectSeq(UsablePoints(points), InYear)))

\* C13: seasonal_totals_mm has exactly the keys winter, spring, summer and
\* fall, and each is the rounded sum of the analyzed observations whose own
\* calendar month is in that season: Dec/Jan/Feb winter, Mar/Apr/May
\* spring, Jun/Jul/Aug summer, Sep/Oct/Nov fall; a December observation
\* counts for winter and never for fall.
C13_SeasonByOwnMonth ==
    (pc = "analyzed" /\ processed_data.kind = "report") =>
        LET seasonal == processed_data.seasonal_totals_mm
        IN  /\ DOMAIN seasonal = {"winter", "spring", "summer", "fall"}
            /\ seasonal["winter"] =
                   RoundHalfEven(SumOfMonths(data_points, {12, 1, 2}), 1000)
            /\ seasonal["spring"] =
                   RoundHalfEven(SumOfMonths(data_points, {3, 4, 5}), 1000)
            /\ seasonal["summer"] =
                   RoundHalfEven(SumOfMonths(data_points, {6, 7, 8}), 1000)
            /\ seasonal["fall"] =
                   RoundHalfEven(SumOfMonths(data_points, {9, 10, 11}), 1000)

\* C14: growing_season_et_mm is the rounded sum of the analyzed ET values
\* whose own date falls in April to October (March and November excluded),
\* 0 when there is none; the series (2021-01, 20), (2021-04, 40),
\* (2021-07, 80), (2021-10, 40) gives total_et_mm 180 and
\* growing_season_et_mm 160.
C14_GrowingSeasonByOwnMonth ==
    (pc = "analyzed" /\ processed_data.kind = "report") =>
        /\ processed_data.growing_season_et_mm =
               RoundHalfEven(SumOfMonths(data_points, 4..10), 1000)
        /\ data_points = <<Point(Jan2021, Num(20000), Absent),
                           Point(Apr2021, Num(40000), Absent),
                           Point(Jul2021, Num(80000), Absent),
                           Point(Oct2021, Num(40000), Absent)>> =>
               /\ processed_data.total_et_mm = 180
               /\ processed_data.growing_season_et_mm = 160

\* C15: yearly_totals_mm has one key for each calendar year in which an
\* analyzed observation falls and no other, in ascending order whatever the
\* order of the observations, each with the rounded sum of the ET values of
\* that year's observations.
C15_YearlyTotalsByOwnYear ==
    (pc = "analyzed" /\ processed_data.kind = "report") =>
        LET yearly == processed_data.yearly_totals_mm
            used   == UsablePoints(data_points)
        IN  /\ {yearly[k].year : k \in 1..Len(yearly)} =
                   {YearOf(used[i]) : i \in 1..Len(used)}
            /\ \A k \in 1..Len(yearly) :
                  /\ \A j \in 1..(k - 1) : yearly[j].year < yearly[k].year
                  /\ yearly[k].total =
                         RoundHalfEven(SumOfYear(data_points, yearly[k].year), 1000)

\* the points in the order a permutation f of their indices gives
Permuted(points, f) == [i \in 1..Len(points) |-> points[f[i]]]

\* C17: total_et_mm is the rounding of the exact sum of all analyzed ET
\* values, and every permutation of the input sequence has the same
\* total_et_mm.
C17_TotalIsOrderIndependent ==
    (pc = "analyzed" /\ processed_data.kind = "report") =>
        /\ processed_data.total_et_mm =
               RoundHalfEven(SumSeq(EtValues(UsablePoints(data_points))), 1000)
        /\ \A f \in Permutations(1..Len(data_points)) :
              LET other == _analyze_et_data(Permuted(data_points, f))
              IN  /\ other.kind = "report"
                  /\ other.total_et_mm = processed_data.total_et_mm

\* C20: for whole-millimetre ET values the four seasonal totals sum to
\* total_et_mm, the yearly totals sum to total_et_mm, and
\* growing_season_et_mm plus the sum of the ET values of the January,
\* February, March, November and December observations is total_et_mm.
C20_TotalsPartitionTheTotal ==
    (pc = "analyzed" /\ processed_data.kind = "report") =>
        LET seasonal == processed_data.seasonal_totals_mm
            yearly   == processed_data.yearly_totals_mm
            total    == processed_data.total_et_mm
        IN  /\ seasonal["winter"] + seasonal["spring"]
                   + seasonal["summer"] + seasonal["fall"] = total
            /\ SumSeq([k \in 1..Len(yearly) |-> yearly[k].total]) = total
            /\ 1000 * processed_data.growing_season_et_mm
                   + SumOfMonths(data_points, {1, 2, 3, 11, 12}) = 1000 * total

(***************************************************************************)
(* SpecVariability: the ET analyzer on values of either sign, with means   *)
(* below, at and above zero and spreads at the consistency thresholds.     *)
(***************************************************************************)
\* ET values in thousandths of a millimetre: -5, 0, 4, 5, 7, 13, 16
VariabilityEtInputs == {-5000, 0, 4000, 5000, 7000, 13000, 16000}

VariabilityPoints == {Point(Dec2020, Num(v), Absent) : v \in VariabilityEtInputs}

InitVariability ==
    /\ pc = "ready"
    /\ data_points \in SeqsUpTo(VariabilityPoints, MaxPoints)
    /\ request = NoRequest
    /\ calls = <<>>
    /\ raw_data = NoPayloads
    /\ processed_data = NoValue
    /\ response = NoValue

SpecVariability == InitVariability /\ [][NextAnalyze]_vars

\* std_dev / mean rounded to 2 decimals (in hundredths) for a mean that is
\* not 0; both are given in tenths
RatioRounded(std_dev, mean) ==
    IF mean > 0 THEN RoundHalfEven(100 * std_dev, mean)
    ELSE RoundHalfEven(-100 * std_dev, -mean)

\* C16: coefficient_of_variation is std_dev / mean_monthly_et_mm rounded to
\* 2 decimals for every mean that is not 0, and 0 when the mean is 0;
\* consistency is high if cv < 0.3, moderate if cv < 0.6, otherwise low.
C16_CvIsStdOverMean ==
    (pc = "analyzed" /\ processed_data.kind = "report") =>
        LET mean == processed_data.mean_monthly_et_mm
            var  == processed_data.et_variability
            cv   == var.coefficient_of_variation
        IN  /\ mean # 0 => cv = RatioRounded(var.std_dev_mm, mean)
            /\ mean = 0 => cv = 0
            /\ var.consistency = "high" <=> cv < 30
            /\ var.consistency = "moderate" <=> (30 <= cv /\ cv < 60)
            /\ var.consistency = "low" <=> 60 <= cv

(***************************************************************************)
(* SpecTrend: the ET analyzer on values whose slope lies at and next to    *)
(* the threshold of the trend, before and after its rounding.              *)
(***************************************************************************)
\* ET values in thousandths of a millimetre: 0, 0.1, 0.332 and 0.334
TrendEtInputs == {0, 100, 332, 334}

TrendPoints == {Point(Dec2020, Num(v), Absent) : v \in TrendEtInputs}

InitTrend ==
    /\ pc = "ready"
    /\ data_points \in SeqsUpTo(TrendPoints, MaxSeries)
    /\ request = NoRequest
    /\ calls = <<>>
    /\ raw_data = NoPayloads
    /\ processed_data = NoValue
    /\ response = NoValue

SpecTrend == InitTrend /\ [][NextAnalyze]_vars

\* C21 as stated: the trend label agrees with the reported slope:
\* monthly_trend is stable if and only if |trend_slope_mm_per_month| < 0.1,
\* increasing only if trend_slope_mm_per_month >= 0.1 and decreasing only
\* if trend_slope_mm_per_month <= -0.1.
C21_LabelAgreesWithReportedSlope ==
    (pc = "analyzed" /\ processed_data.kind = "report") =>
        LET trend    == processed_data.monthly_trend
            reported == processed_data.trend_slope_mm_per_month
        IN  /\ trend = "stable" <=> Abs(reported) < 100
            /\ trend = "increasing" => reported >= 100
            /\ trend = "decreasing" => reported <= -100

\* C21 amended: monthly_trend is stable if and only if the slope before
\* its rounding has |slope| < 0.1 (always so with fewer than 2 values);
\* trend_slope_mm_per_month is that slope rounded to 3 decimals, so stable
\* holds whenever |trend_slope_mm_per_month| < 0.1 and only if
\* |trend_slope_mm_per_month| <= 0.1, increasing only if
\* trend_slope_mm_per_month >= 0.1 and decreasing only if
\* trend_slope_mm_per_month <= -0.1.
C21_LabelAgreesWithUnroundedSlope ==
    (pc = "analyzed" /\ processed_data.kind = "report") =>
        LET trend    == processed_data.monthly_trend
            reported == processed_data.trend_slope_mm_per_month
            y        == EtValues(data_points)
            cov      == CentredCov(y)
            var      == CentredVar(Len(y))
        IN  /\ trend \in {"stable", "increasing", "decreasing"}
            /\ trend = "stable" <=> (Len(y) < 2 \/ 10 * Abs(cov) < 1000 * var)
            /\ Len(y) < 2 => reported = 0
            /\ Len(y) >= 2 => reported = RoundHalfEven(cov, var)
            /\ Abs(reported) < 100 => trend = "stable"
            /\ trend = "stable" => Abs(reported) <= 100
            /\ trend = "increasing" => reported >= 100
            /\ trend = "decreasing" => reported <= -100

\* the values 0, 0, 0 and 0.332 have the slope 0.0996: the analysis is
\* labelled stable and reports the slope 0.1
C21_Witness ==
    /\ pc = "analyzed"
    /\ processed_data.kind = "report"
    /\ EtValues(data_points) = <<0, 0, 0, 332>>
    /\ SlopeIs(data_points, 996, 10000)
    /\ processed_data.monthly_trend = "stable"
    /\ processed_data.trend_slope_mm_per_month = 100

(***************************************************************************)
(* SpecExtract: the extractor called on its own on one raw payload.        *)
(***************************************************************************)
ExtractorItems ==
    {Item(t, v) :
        t \in {Dec2020, Apr2021, EmptyDate, AbsentDate},
        v \in {Num(0), Num(5), Null, Absent}}

ExtractorPayloads ==
    {ErrorObject} \cup {ListPayload(items) : items \in SeqsUpTo(ExtractorItems, MaxItems)}

InitExtract ==
    /\ pc = "ready"
    /\ raw_data \in [et : ExtractorPayloads, ndvi : {ErrorObject}]
                    \cup [et : {ErrorObject}, ndvi : ExtractorPayloads]
    /\ data_points = <<>>
    /\ request = NoRequest
    /\ calls = <<>>
    /\ processed_data = NoValue
    /\ response = NoValue

ExtractVariableData ==
    /\ pc = "ready"
    /\ \E variable \in {"et", "ndvi"} :
          processed_data' = [kind |-> "series",
                             variable |-> variable,
                             series |-> _extract_variable_data(raw_data[variable], variable)]
    /\ pc' = "extracted"
    /\ UNCHANGED <<request, calls, raw_data, data_points, response>>

NextExtract == ExtractVariableData

SpecExtract == InitExtract /\ [][NextExtract]_vars

\* the value a data point holds for a variable
ValueOf(point, variable) == IF variable = "et" THEN point.ET ELSE point.NDVI

\* the data points of a sequence of records, each with the record's own
\* date and value
PointsOf(items, variable) ==
    [i \in 1..Len(items) |-> PointOf(items[i], variable)]

\* the record has a 'time' key and a non-null value
DatePresentValueNonNull(item) == item.time.form # "absent" /\ item.value.tag = "num"

\* the record has a non-empty date and a non-null value
DateNonEmptyValueNonNull(item) ==
    item.time.form \notin {"absent", "empty"} /\ item.value.tag = "num"

\* C7 as stated: the observations extracted from a raw sequence are exactly
\* the records, in input order, that have a date field present and a
\* non-null value.
C7_KeepsDatePresent ==
    (pc = "extracted" /\ raw_data[processed_data.variable].is_list) =>
        processed_data.series.data_points =
            PointsOf(SelectSeq(raw_data[processed_data.variable].items,
                               DatePresentValueNonNull),
                     processed_data.variable)

\* C7 amended: the observations extracted from a raw sequence are exactly
\* the records, in input order, that have a non-empty date and a non-null
\* value (0 included), each with its own date and value; every other record
\* is dropped and no value is imputed.
C7_KeepsDateNonEmpty ==
    (pc = "extracted" /\ raw_data[processed_data.variable].is_list) =>
        LET variable == processed_data.variable
            points   == processed_data.series.data_points
        IN  /\ points = PointsOf(SelectSeq(raw_data[variable].items,
                                           DateNonEmptyValueNonNull),
                                 variable)
            /\ \A i \in 1..Len(points) :
                  \E j \in 1..Len(raw_data[variable].items) :
                      /\ raw_data[variable].items[j].time = points[i].date
                      /\ raw_data[variable].items[j].value = ValueOf(points[i], variable)

\* an extraction that kept a record with value 0, dropped a record with an
\* empty date and dropped a record with a null value
C7_Witness ==
    /\ pc = "extracted"
    /\ processed_data.variable = "et"
    /\ raw_data.et.is_list
    /\ Len(raw_data.et.items) = 3
    /\ raw_data.et.items[1] = Item(EmptyDate, Num(5))
    /\ raw_data.et.items[2] = Item(Dec2020, Num(0))
    /\ raw_data.et.items[3] = Item(Apr2021, Null)
    /\ processed_data.series.data_points = <<Point(Dec2020, Num(0), Absent)>>

\* C18: date_range is "N/A" exactly when no observation was extracted;
\* otherwise it runs from the date of the first extracted observation to
\* the date of the last one, in sequence order, so a dropped leading or
\* trailing record never shows in it; values_found is the number of
\* extracted observations.
C18_DateRangeIsFirstToLastExtracted ==
    pc = "extracted" =>
        LET items  == raw_data[processed_data.variable].items
            series == processed_data.series
            kept   == {i \in 1..Len(items) : DateNonEmptyValueNonNull(items[i])}
            first  == CHOOSE i \in kept : \A j \in kept : i <= j
            last   == CHOOSE i \in kept : \A j \in kept : j <= i
        IN  /\ series.date_range = NoDateRange <=> series.data_points = <<>>
            /\ series.date_range = NoDateRange <=> kept = {}
            /\ kept # {} =>
                  series.date_range = DateRange(items[first].time, items[last].time)
            /\ series.values_found = Cardinality(kept)
            /\ series.values_found = Len(series.data_points)

\* an extraction that dropped the leading record and kept an April 2021
\* record before a December 2020 one: the range runs from April 2021 to
\* December 2020
C18_Witness ==
    /\ pc = "extracted"
    /\ processed_data.variable = "et"
    /\ raw_data.et.is_list
    /\ raw_data.et.items = <<Item(Dec2020, Null), Item(Apr2021, Num(5)),
                             Item(Dec2020, Num(0))>>
    /\ processed_data.series.date_range = DateRange(Apr2021, Dec2020)
    /\ processed_data.series.values_found = 2

(***************************************************************************)
(* SpecProcess: process_response on a pair of provider payloads.           *)
(***************************************************************************)
EtItems ==
    {Item(t, v) : t \in {Dec2020, Apr2021, JunkDate}, v \in {Num(0), Num(5000), Null}}

NdviItems ==
    {Item(Dec2020, v) : v \in {Num(150), Num(450), Null, Absent}}

PayloadsOf(items, n) ==
    {ErrorObject} \cup {ListPayload(s) : s \in SeqsUpTo(items, n)}

InitProcess ==
    /\ pc = "ready"
    /\ raw_data \in [et : PayloadsOf(EtItems, MaxFetched),
                     ndvi : PayloadsOf(NdviItems, MaxFetched)]
    /\ data_points = <<>>
    /\ request = NoRequest
    /\ calls = <<>>
    /\ processed_data = NoValue
    /\ response = NoValue

ProcessResponse ==
    /\ pc = "ready"
    /\ processed_data' = process_response(raw_data)
    /\ pc' = "processed"
    /\ UNCHANGED <<request, calls, raw_data, data_points, response>>

NextProcess == ProcessResponse

SpecProcess == InitProcess /\ [][NextProcess]_vars

\* the ExtractedSeries of a variable whose payload was no sequence
FailedSeries(series) ==
    /\ series.data_points = <<>>
    /\ series.values_found = 0
    /\ series.date_range = NoDateRange

\* C6: when one variable's payload is not a sequence and the other's is,
\* process_response does not raise; the failing variable gets a series with
\* no observations, values_found = 0, date_range "N/A" and an empty
\* analysis; the other variable's series and analysis are what they are
\* with any sequence in the place of the failing payload.
C6_OneVariableFailsSoft ==
    /\ (pc = "processed" /\ ~raw_data.ndvi.is_list /\ raw_data.et.is_list) =>
          /\ processed_data.kind = "report"
          /\ FailedSeries(processed_data.NDVI)
          /\ processed_data.vegetation_summary = EmptyDict
          /\ \A q \in PayloadsOf(NdviItems, MaxFetched) :
                LET both == process_response([et |-> raw_data.et, ndvi |-> q])
                IN  q.is_list =>
                      /\ both.kind = "report"
                      /\ both.ET = processed_data.ET
                      /\ both.et_analysis = processed_data.et_analysis
    /\ (pc = "processed" /\ ~raw_data.et.is_list /\ raw_data.ndvi.is_list) =>
          /\ processed_data.kind = "report"
          /\ FailedSeries(processed_data.ET)
          /\ processed_data.et_analysis = EmptyDict
          /\ \A q \in PayloadsOf(EtItems, MaxFetched) :
                LET both == process_response([et |-> q, ndvi |-> raw_data.ndvi])
                IN  (q.is_list /\ both.kind = "report") =>
                      /\ both.NDVI = processed_data.NDVI
                      /\ both.vegetation_summary = processed_data.vegetation_summary

\* C19: the assembled report has exactly the keys NDVI, ET, et_analysis
\* and vegetation_summary; NDVI and ET are the two extracted series
\* unchanged, et_analysis is the ET analyzer's result on the observations of
\* the ET series, vegetation_summary the summarizer's result on the
\* observations of the NDVI series, and the assembly fails for no pair of
\* well-formed, possibly empty, extracted series.
C19_ReportIsPureComposition ==
    pc = "processed" =>
        LET ndvi_data == _extract_variable_data(raw_data.ndvi, "ndvi")
            et_data   == _extract_variable_data(raw_data.et, "et")
        IN  /\ processed_data.kind = "report"
            /\ DOMAIN processed_data =
                   {"kind", "NDVI", "ET", "et_analysis", "vegetation_summary"}
            /\ processed_data.NDVI = ndvi_data
            /\ processed_data.ET = et_data
            /\ processed_data.et_analysis = _analyze_et_data(et_data.data_points)
            /\ processed_data.et_analysis.kind \in {"empty", "report"}
            /\ processed_data.vegetation_summary =
                   _generate_vegetation_summary(ndvi_data.data_points)

(***************************************************************************)
(* serializers.py: request validation                                      *)
(***************************************************************************)
\* JSON values of the 'polygon' field.  A dict is held with the keys the
\* code reads; a key it does not hold reads as JNone (dict.get).
JNum(n) == [json |-> "number", n |-> n]
JStr(str) == [json |-> "string", s |-> str]
JList(xs) == [json |-> "list", elems |-> xs]
JNone == [json |-> "null"]
JDict(type, coordinates, geometry, features) ==
    [json |-> "dict", type |-> type, coordinates |-> coordinates,
     geometry |-> geometry, features |-> features]
\* the request holds no 'polygon' key
NoPolygon == [json |-> "missing"]

\* Python truthiness of a JSON value (`if not features`, `if not geometry`)
Falsy(x) ==
    \/ x.json = "null"
    \/ x.json = "list" /\ x.elems = <<>>
    \/ x.json = "number" /\ x.n = 0
    \/ x.json = "string" /\ x.s = ""

Valid(value) == [ok |-> TRUE, value |-> value]
\* serializers.ValidationError
Invalid == [ok |-> FALSE, value |-> JNone]

\* isinstance(x, (int, float))
IsNumber(x) == x.json = "number"

\* list(a) + list(b) + ... of a sequence of sequences
RECURSIVE Concat(_)
Concat(ss) == IF ss = <<>> THEN <<>> ELSE Head(ss) \o Concat(Tail(ss))

\* returns the outer ring, JNone for a geometry that is no dict
_extract_coordinates_from_geometry(geometry) ==
    IF geometry.json # "dict" THEN Valid(JNone)
    ELSE IF geometry.type # "Polygon" THEN Invalid
    ELSE LET coords == geometry.coordinates
         IN  IF coords.json # "list" THEN Invalid
             ELSE IF Len(coords.elems) = 0 THEN Invalid
             ELSE IF coords.elems[1].json # "list" THEN Invalid
             ELSE Valid(coords.elems[1])

_extract_coordinates_from_geojson(geojson) ==
    IF geojson.type = "FeatureCollection"
    THEN LET features == geojson.features
         IN  IF Falsy(features) THEN Invalid
             ELSE IF Len(features.elems) > 1 THEN Invalid
             ELSE LET feature == features.elems[1]
                  IN  IF feature.json # "dict" THEN Invalid
                      ELSE IF feature.type # "Feature" THEN Invalid
                      ELSE IF Falsy(feature.geometry) THEN Invalid
                      ELSE _extract_coordinates_from_geometry(feature.geometry)
    ELSE IF geojson.type = "Feature"
    THEN IF Falsy(geojson.geometry) THEN Invalid
         ELSE _extract_coordinates_from_geometry(geojson.geometry)
    ELSE IF geojson.type = "Polygon"
    THEN _extract_coordinates_from_geometry(geojson)
    ELSE Invalid

\* the least number of values of a flat polygon array
MinFlatValues == 6
\* the least number of coordinate pairs of a polygon
MinPairs == 3

\* ValidateFlatArray without the least length: any even number of values
ValidateFlatArrayAnyLength(value) ==
    IF Len(value.elems) % 2 # 0 THEN Invalid ELSE Valid(value)

\* case 1 of validate_polygon: a flat array of numbers
ValidateFlatArray(value) ==
    IF Len(value.elems) < MinFlatValues THEN Invalid
    ELSE IF Len(value.elems) % 2 # 0 THEN Invalid
    ELSE Valid(value)

\* PolygonQuerySerializer.validate_polygon: the flat array handed to OpenET,
\* or a ValidationError
validate_polygon(value) ==
    IF value.json = "list" /\ Len(value.elems) > 0
    THEN IF \A i \in 1..Len(value.elems) : IsNumber(value.elems[i])
         THEN ValidateFlatArray(value)
         ELSE IF \A i \in 1..Len(value.elems) :
                    value.elems[i].json = "list" /\ Len(value.elems[i].elems) = 2
         THEN IF Len(value.elems) < MinPairs THEN Invalid
              ELSE Valid(JList(Concat([i \in 1..Len(value.elems) |->
                                          value.elems[i].elems])))
         ELSE Invalid
    ELSE IF value.json = "dict"
    THEN LET coords == _extract_coordinates_from_geojson(value)
         IN  IF ~coords.ok THEN Invalid
             ELSE IF coords.value = JNone THEN Invalid
             ELSE IF Len(coords.value.elems) < MinPairs THEN Invalid
             ELSE IF \E i \in 1..Len(coords.value.elems) :
                        \/ coords.value.elems[i].json # "list"
                        \/ Len(coords.value.elems[i].elems) < 2
             THEN Invalid
             ELSE Valid(JList(Concat([i \in 1..Len(coords.value.elems) |->
                        SubSeq(coords.value.elems[i].elems, 1, 2)])))
    ELSE Invalid

\* a < b for two parsed dates
DateBefore(a, b) ==
    \/ a.year < b.year
    \/ a.year = b.year /\ a.month < b.month
    \/ a.year = b.year /\ a.month = b.month /\ a.day < b.day

\* serializers.DateField: the field is valid when the string is a date
DateFieldValid(date) == strptime(date).raised = ""

\* serializers.FloatField(required=True, min_value=lo, max_value=hi)
FloatFieldValid(x, lo, hi) == x.tag = "num" /\ lo <= x.v /\ x.v <= hi

\* validate with the comparison weakened to start_date > end_date: equal
\* dates pass
validateAllowsEqual(data) ==
    ~DateBefore(strptime(data.end_date), strptime(data.start_date))

\* validate(data) of both serializers: start_date >= end_date is an error
validate(data) ==
    DateBefore(strptime(data.start_date), strptime(data.end_date))

\* PointQuerySerializer(data).is_valid()
PointQueryValid(data) ==
    /\ FloatFieldValid(data.lat, -90, 90)
    /\ FloatFieldValid(data.lon, -180, 180)
    /\ DateFieldValid(data.start_date)
    /\ DateFieldValid(data.end_date)
    /\ validate(data)

\* PolygonQuerySerializer(data).is_valid()
PolygonQueryValid(data) ==
    /\ data.polygon.json \notin {"missing", "null"}
    /\ validate_polygon(data.polygon).ok
    /\ DateFieldValid(data.start_date)
    /\ DateFieldValid(data.end_date)
    /\ validate(data)

(***************************************************************************)
(* services/ai_summarizer.py                                               *)
(***************************************************************************)
\* a Python str
StrValue == [kind |-> "str"]

\* parse_structured_response(content): the four sections; re.search raises
\* TypeError on a content of None
parse_structured_response(content) ==
    IF content = "none" THEN Raised("TypeError")
    ELSE IF content = "sections"
    THEN [kind |-> "summary", source |-> "llm",
          sections |-> {"trend_consistency", "timing_alignment",
                        "continuity_over_time", "ai_summary"}]
    ELSE [kind |-> "summary", source |-> "llm-unstructured",
          sections |-> {"trend_consistency", "timing_alignment",
                        "continuity_over_time", "ai_summary"}]

\* generate_fallback_summary(field_practice, eo_data, error_msg=""):
\* eo_data.get(...) raises AttributeError when eo_data is a str
generate_fallback_summary(field_practice, eo_data, error_msg) ==
    IF eo_data.kind = "str" THEN Raised("AttributeError")
    ELSE [kind |-> "summary", source |-> "fallback",
          sections |-> {"trend_consistency", "timing_alignment",
                        "continuity_over_time", "ai_summary"}]

\* the outcomes of client.chat.completions.create: an exception, or a
\* message content that is None, text with the four headed sections, or
\* other text
LlmOutcomes == {"exception", "none", "sections", "text"}

\* generate_text_summary(eo_data) when the LLM call ends in `outcome`: what
\* is returned, or Raised(e)
generate_text_summary(eo_data, outcome) ==
    LET result == IF outcome = "exception" THEN Raised("Exception")
                  ELSE parse_structured_response(outcome)
    IN  IF result.kind = "raised"
        \* except Exception as e: return generate_fallback_summary(eo_data, error_msg)
        THEN generate_fallback_summary(eo_data, StrValue, StrValue)
        ELSE result

(***************************************************************************)
(* views.py: SatelliteDataAPIView                                          *)
(***************************************************************************)
Response(status, body) == [status |-> status, body |-> body]

HTTP_200_OK == 200
HTTP_400_BAD_REQUEST == 400
HTTP_500_INTERNAL_SERVER_ERROR == 500

ErrorBody(error) == [kind |-> "error", error |-> error]

\* a call to an external service and how it ended
Call(service, outcome) == [service |-> service, outcome |-> outcome]

\* `if request.data and 'polygon' in request.data`
IsPolygonRequest(req) == req.method = "POST" /\ req.data.polygon.json # "missing"

\* the serializer of the request is valid
SerializerValid(req) ==
    IF IsPolygonRequest(req) THEN PolygonQueryValid(req.data)
    ELSE PointQueryValid(req.data)

\* get / post up to the first provider call: the serializer is built from
\* the request and a request that is not valid is answered 400
Validate(req) ==
    /\ pc = "idle"
    /\ request' = req
    /\ IF SerializerValid(req)
       THEN /\ pc' = "fetch_et"
            /\ UNCHANGED response
       ELSE /\ pc' = "done"
            /\ response' = Response(HTTP_400_BAD_REQUEST, ErrorBody("serializer.errors"))
    /\ UNCHANGED <<calls, raw_data, data_points, processed_data>>

\* Fetch with the exception of the provider call swallowed: the failure is
\* logged and the handler goes on without a payload
FetchSwallowsFailure(variable, payload, failed, here, next) ==
    /\ pc = here
    /\ IF failed
       THEN /\ calls' = Append(calls, Call(variable, "RequestException"))
            /\ UNCHANGED raw_data
       ELSE /\ calls' = Append(calls, Call(variable, "ok"))
            /\ raw_data' = [raw_data EXCEPT ![variable] = payload]
    /\ pc' = next
    /\ UNCHANGED <<request, data_points, processed_data, response>>

\* fetch_point_data / fetch_polygon_data of one variable: the payload of
\* the provider, or requests.RequestException re-raised and answered 500
Fetch(variable, payload, failed, here, next) ==
    /\ pc = here
    /\ IF failed
       THEN /\ calls' = Append(calls, Call(variable, "RequestException"))
            /\ pc' = "done"
            /\ response' = Response(HTTP_500_INTERNAL_SERVER_ERROR,
                                    ErrorBody("RequestException"))
            /\ UNCHANGED raw_data
       ELSE /\ calls' = Append(calls, Call(variable, "ok"))
            /\ raw_data' = [raw_data EXCEPT ![variable] = payload]
            /\ pc' = next
            /\ UNCHANGED response
    /\ UNCHANGED <<request, data_points, processed_data>>

\* process_response, then generate_text_summary, then the response: an
\* exception of either is caught by `except Exception` and answered 500
\* (`except ImportError` catches none of them)
Respond(outcome) ==
    /\ pc = "process"
    /\ LET processed == process_response(raw_data)
           summary   == generate_text_summary(processed, outcome)
       IN  IF processed.kind = "raised"
           THEN /\ processed_data' = processed
                /\ calls' = calls
                /\ response' = Response(HTTP_500_INTERNAL_SERVER_ERROR,
                                        ErrorBody(processed.exception))
           ELSE /\ processed_data' = processed
                /\ calls' = Append(calls, Call("llm", outcome))
                /\ response' =
                      IF summary.kind = "raised"
                      THEN Response(HTTP_500_INTERNAL_SERVER_ERROR,
                                    ErrorBody(summary.exception))
                      ELSE Response(HTTP_200_OK,
                                    [kind |-> "report",
                                     report |-> processed,
                                     text_summary |-> summary])
    /\ pc' = "done"
    /\ UNCHANGED <<request, raw_data, data_points>>

(***************************************************************************)
(* Spec: one request through SatelliteDataAPIView.                         *)
(***************************************************************************)
RequestDates == {Jan2021, Jun2021, JunkDate}

PointData(lat, lon, start_date, end_date) ==
    [polygon |-> NoPolygon, lat |-> lat, lon |-> lon,
     start_date |-> start_date, end_date |-> end_date]

PolygonData(polygon, start_date, end_date) ==
    [polygon |-> polygon, lat |-> Absent, lon |-> Absent,
     start_date |-> start_date, end_date |-> end_date]

PointInputs ==
    {PointData(lat, lon, s, e) :
        lat \in {Num(-91), Num(-90), Num(90), Num(91), Absent},
        lon \in {Num(-181), Num(-180), Num(180), Num(181)},
        s \in RequestDates, e \in RequestDates}

\* rings of positions (lon, lat), closed or not
Rings == SeqsUpTo({<<0, 0>>, <<1, 1>>}, MaxRing)

Position(p) == JList(<<JNum(p[1]), JNum(p[2])>>)
PairArray(ring) == JList([i \in 1..Len(ring) |-> Position(ring[i])])
FlatArray(ring) ==
    JList(Concat([i \in 1..Len(ring) |-> <<JNum(ring[i][1]), JNum(ring[i][2])>>]))
Geometry(type, ring) == JDict(type, JList(<<PairArray(ring)>>), JNone, JNone)
Feature(geometry) == JDict("Feature", JNone, geometry, JNone)
FeatureCollection(features) == JDict("FeatureCollection", JNone, JNone, JList(features))

Square == <<<<0, 0>>, <<1, 1>>, <<1, 1>>, <<0, 0>>>>

PolygonInputs ==
    {FlatArray(r) : r \in Rings}
    \cup {PairArray(r) : r \in Rings}
    \cup {Geometry("Polygon", r) : r \in Rings}
    \cup {Feature(Geometry("Polygon", r)) : r \in Rings}
    \cup {FeatureCollection(<<Feature(Geometry("Polygon", r))>>) : r \in Rings}
    \cup {JNone,
          JStr("0,0,1,1,0,0"),
          \* an odd number of values
          JList(FlatArray(Square).elems \o <<JNum(0)>>),
          \* numbers and pairs mixed
          JList(<<JNum(0), Position(<<0, 0>>), Position(<<1, 1>>)>>),
          \* pairs that hold no numbers
          JList(<<JList(<<JStr("a"), JStr("b")>>), JList(<<JStr("a"), JStr("b")>>),
                  JList(<<JStr("a"), JStr("b")>>)>>),
          \* positions with an altitude
          JDict("Polygon",
                JList(<<JList(<<JList(<<JNum(0), JNum(0), JNum(9)>>),
                                JList(<<JNum(1), JNum(1), JNum(9)>>),
                                JList(<<JNum(0), JNum(1), JNum(9)>>)>>)>>),
                JNone, JNone),
          \* a position of one number
          JDict("Polygon",
                JList(<<JList(<<JList(<<JNum(0), JNum(0)>>),
                                JList(<<JNum(1), JNum(1)>>),
                                JList(<<JNum(0)>>)>>)>>),
                JNone, JNone),
          Geometry("Point", Square),
          JDict("Polygon", JNone, JNone, JNone),
          JDict("Polygon", JList(<<JNum(0)>>), JNone, JNone),
          Feature(JNone),
          Feature(JStr("geometry")),
          FeatureCollection(<<>>),
          FeatureCollection(<<Feature(Geometry("Polygon", Square)),
                              Feature(Geometry("Polygon", Square))>>),
          FeatureCollection(<<Geometry("Polygon", Square)>>),
          FeatureCollection(<<JNum(0)>>)}

GetRequests == {[method |-> "GET", data |-> d] : d \in PointInputs}

PostRequests ==
    {[method |-> "POST", data |-> d] : d \in PointInputs}
    \cup {[method |-> "POST", data |-> PolygonData(g, s, e)] :
             g \in PolygonInputs, s \in RequestDates, e \in RequestDates}

\* what the provider may answer for a variable
FetchedEt ==
    PayloadsOf({Item(Dec2020, Num(5000)), Item(JunkDate, Num(5000))}, MaxFetched)
FetchedNdvi == PayloadsOf({Item(Dec2020, Num(450))}, MaxFetched)

Init ==
    /\ pc = "idle"
    /\ request = NoRequest
    /\ calls = <<>>
    /\ raw_data = NoPayloads
    /\ data_points = <<>>
    /\ processed_data = NoValue
    /\ response = NoValue

Get == \E req \in GetRequests : Validate(req)

Post == \E req \in PostRequests : Validate(req)

FetchEt ==
    \E payload \in FetchedEt, failed \in BOOLEAN :
        Fetch("et", payload, failed, "fetch_et", "fetch_ndvi")

FetchNdvi ==
    \E payload \in FetchedNdvi, failed \in BOOLEAN :
        Fetch("ndvi", payload, failed, "fetch_ndvi", "process")

ProcessAndSummarize == \E outcome \in LlmOutcomes : Respond(outcome)

Next == Get \/ Post \/ FetchEt \/ FetchNdvi \/ ProcessAndSummarize

Spec == Init /\ [][Next]_vars

(***************************************************************************)
(* Claims about a whole request (Spec).                                    *)
(***************************************************************************)
\* the calls made to a service, in order
CallsTo(service) == SelectSeq(calls, LAMBDA c : c.service = service)

\* both provider fetches succeeded and the summarizer's LLM call failed:
\* it raised, or it returned no content to parse
SummarizerFailed ==
    /\ pc = "done"
    /\ CallsTo("et") = <<Call("et", "ok")>>
    /\ CallsTo("ndvi") = <<Call("ndvi", "ok")>>
    /\ \E outcome \in {"exception", "none"} : CallsTo("llm") = <<Call("llm", outcome)>>

\* C1: when the summarizer's LLM call fails in a request whose two
\* provider fetches succeeded, the response is 200 and carries the numeric
\* report with text_summary set to the fallback narrative of four sections.
C1_SummarizerFailureKeepsReport ==
    SummarizerFailed =>
        /\ response.status = HTTP_200_OK
        /\ response.body.kind = "report"
        /\ response.body.report = processed_data
        /\ response.body.text_summary.source = "fallback"
        /\ Cardinality(response.body.text_summary.sections) = 4

\* a date as a number that orders as the calendar does
Ordinal(date) == date.y * 10000 + date.m * 100 + date.d

\* both dates of the request are dates and start_date is strictly before
\* end_date
DatesOrdered(data) ==
    /\ strptime(data.start_date).raised = ""
    /\ strptime(data.end_date).raised = ""
    /\ Ordinal(data.start_date) < Ordinal(data.end_date)

\* the request was answered 400 and nothing was called or computed for it
Rejected ==
    /\ pc = "done"
    /\ response.status = HTTP_400_BAD_REQUEST
    /\ calls = <<>>
    /\ processed_data = NoValue

\* the pairs a polygon value holds: of a flat array of an even number of
\* numbers, of an array of two-element arrays, or the first two entries of
\* each position of the outer ring of a GeoJSON Polygon, Feature or
\* single-feature FeatureCollection; <<>> for anything else
GeometryOf(polygon) ==
    IF polygon.type = "Polygon" THEN polygon
    ELSE IF polygon.type = "Feature" THEN polygon.geometry
    ELSE IF /\ polygon.type = "FeatureCollection"
            /\ polygon.features.json = "list"
            /\ Len(polygon.features.elems) = 1
            /\ polygon.features.elems[1].json = "dict"
            /\ polygon.features.elems[1].type = "Feature"
    THEN polygon.features.elems[1].geometry
    ELSE JNone

PairsOf(polygon) ==
    IF polygon.json = "list"
    THEN LET e == polygon.elems
         IN  IF (\A i \in 1..Len(e) : e[i].json = "number") /\ Len(e) % 2 = 0
             THEN [i \in 1..(Len(e) \div 2) |-> <<e[2 * i - 1], e[2 * i]>>]
             ELSE IF \A i \in 1..Len(e) : e[i].json = "list" /\ Len(e[i].elems) = 2
             THEN [i \in 1..Len(e) |-> <<e[i].elems[1], e[i].elems[2]>>]
             ELSE <<>>
    ELSE IF polygon.json = "dict"
    THEN LET g == GeometryOf(polygon)
         IN  IF /\ g.json = "dict"
                /\ g.type = "Polygon"
                /\ g.coordinates.json = "list"
                /\ g.coordinates.elems # <<>>
                /\ g.coordinates.elems[1].json = "list"
                /\ \A i \in 1..Len(g.coordinates.elems[1].elems) :
                      /\ g.coordinates.elems[1].elems[i].json = "list"
                      /\ Len(g.coordinates.elems[1].elems[i].elems) >= 2
             THEN LET ring == g.coordinates.elems[1].elems
                  IN  [i \in 1..Len(ring) |-> <<ring[i].elems[1], ring[i].elems[2]>>]
             ELSE <<>>
    ELSE <<>>

IsClosedRing(pairs) == pairs # <<>> /\ pairs[1] = pairs[Len(pairs)]

C9_PointRequestsValidated ==
    (request # NoRequest /\ ~IsPolygonRequest(request)) =>
        LET d == request.data
        IN  \/ /\ d.lat.tag = "num" /\ -90 <= d.lat.v /\ d.lat.v <= 90
               /\ d.lon.tag = "num" /\ -180 <= d.lon.v /\ d.lon.v <= 180
               /\ DatesOrdered(d)
            \/ Rejected

\* a point request in range with start_date = end_date was answered 400
C9_Witness ==
    /\ request # NoRequest
    /\ ~IsPolygonRequest(request)
    /\ request.data.lat = Num(90)
    /\ request.data.lon = Num(-180)
    /\ request.data.start_date = Jan2021
    /\ request.data.end_date = Jan2021
    /\ Rejected

\* some provider fetch of the request failed
FetchFailed == \E i \in 1..Len(calls) : calls[i].outcome = "RequestException"

\* C22: within one request the ET fetch is the first external call, the
\* NDVI fetch is made only right after an ET fetch that succeeded, and the
\* summarizer is called only after both fetches succeeded and the report
\* was assembled; when a fetch fails the response is 500 with an error
\* message and no report, and the summarizer is never called.
C22_CallsInOrderAndOnlyAfterSuccess ==
    /\ \A i \in 1..Len(calls) :
          /\ calls[i].service = "et" => i = 1
          /\ calls[i].service = "ndvi" =>
                i = 2 /\ calls[1] = Call("et", "ok")
          /\ calls[i].service = "llm" =>
                /\ i = 3
                /\ calls[1] = Call("et", "ok")
                /\ calls[2] = Call("ndvi", "ok")
                /\ processed_data.kind = "report"
    /\ FetchFailed =>
          /\ pc = "done"
          /\ response.status = HTTP_500_INTERNAL_SERVER_ERROR
          /\ response.body = ErrorBody("RequestException")
          /\ processed_data = NoValue
          /\ CallsTo("llm") = <<>>
          /\ calls[Len(calls)].outcome = "RequestException"

\* a request whose ET fetch succeeded and whose NDVI fetch failed: answered
\* 500, no report, the summarizer not called
C22_Witness ==
    /\ pc = "done"
    /\ calls = <<Call("et", "ok"), Call("ndvi", "RequestException")>>
    /\ response.status = HTTP_500_INTERNAL_SERVER_ERROR
    /\ processed_data = NoValue

====
